---------------------------- MODULE Spec2Model ----------------------------
(***************************************************************************)
(* A model of the channel-based prime sieves of aht/gosieve.               *)
(*                                                                         *)
(* The repository holds successive rewrites of one design:                 *)
(*   - the bounded-feedback sieve (src/sieve2.go, src/unnamed/part_000),   *)
(*   - the sieve with the slice-based sendproxy (src/unnamed/part_001),    *)
(*   - the closable sieve with the ring-based sendproxy (src/sieve3.go).   *)
(* Each goroutine is a process; every channel operation is one action,     *)
(* together with the local computation that follows it up to the next      *)
(* channel operation.  A buffered channel is the sequence of the values it *)
(* holds.                                                                  *)
(***************************************************************************)
EXTENDS Integers, Sequences, FiniteSets, TLC

(***************************************************************************)
(* Bounds of the model.  The channel capacities and the initial sizes of   *)
(* the proxies' buffers are scaled down from the program's values (given   *)
(* beside each) so that full channels, buffer expansions and full batches  *)
(* of the receive loop are reached within a checkable state space.         *)
(***************************************************************************)
\* values a reader takes from one generator in the generator-only system
MaxEmit == 50
\* largest prime p whose multiples(p) is examined in the generator-only system
MaxPrime == 419
\* capacity of a spin channel (1024 / 750 / 100 for candidates, 1024 / 50 / 20 for multiples)
SpinCap == 1

\* width of int in the model: int is 32 bits wide in the program; the model
\* keeps the wrap-around of int arithmetic at a smaller width
IntBits == 24

VARIABLES
    mode,       \* which system runs: "spin", "slice", "ring", "sieve", "closable",
                \* "nth", "bounded"
    \* the generators
    spin,       \* spin[s] = [n, k, i]: the locals of the spin goroutine of stream s
    sch,        \* sch[s]: the channel `out` of stream s
    sclosed,    \* the streams whose channel has been closed
    sdone,      \* the streams whose spin goroutine has returned
    \* the feedback channels
    pin,        \* the channel sendproxy returns (`in` / `proxy`)
    primes,     \* the channel `primes` that sendproxy forwards to (its `out`)
    closed,     \* the named channels that have been closed
    \* the sendproxy goroutine
    ppc,        \* where it stands: "select", "tryrecv", "trysend", "done"
    buf, bi, bn,        \* slice variant: buf, i, n
    cOut,       \* slice variant: c = out (TRUE) or c = nil (FALSE)
    added,      \* slice variant: the counter of the receive loop
    inNil,      \* slice variant: in = nil
    ring, first, last, rn,  \* ring variant: the ring, first, last, n
    taken,      \* history: the values sendproxy received from its input
    fwd,        \* history: the values sendproxy sent on `out`
    \* the sieve
    out,        \* the channel of primes Sieve() returns
    composites, \* the channel `composites`
    mpc,        \* merging goroutine: the channel operation it stands at
    min, head, m, h, minchan,   \* merging goroutine: its locals; m and minchan
                \* name a stream, h maps each stream of the heap to its head
    csent,      \* history: the values the merging goroutine sent on `composites`
    spc,        \* sieving goroutine: the channel operation it stands at
    p, c,       \* sieving goroutine: its locals
    cpc,        \* the caller: "recv" while it receives from `out`, then "done"
    limit,      \* the caller's argument n: it stops at the first value > n
    fcap,       \* bounded variant: the capacity of `primes`, the n of Primes(n)
    \* the environment
    wnext,      \* the next value the writer of the proxy-only system sends
    received    \* the values the reader has taken, in order

genVars == <<spin, sch, sclosed, sdone>>
chanVars == <<pin, primes, closed>>
proxyVars == <<ppc, buf, bi, bn, cOut, added, inNil, ring, first, last, rn, taken, fwd>>
mergeVars == <<mpc, min, head, m, h, minchan, csent>>
sieveVars == <<spc, p, c>>
pipeVars == <<out, composites, mergeVars, sieveVars, cpc, limit, fcap>>
\* what the sendproxy goroutine never touches
nonProxyVars == <<mode, genVars, pipeVars, wnext, received>>
vars == <<mode, genVars, chanVars, proxyVars, pipeVars, wnext, received>>

---------------------------------------------------------------------------
(***************************************************************************)
(* Auxiliary arithmetic.                                                   *)
(***************************************************************************)
Range(s) == {s[j] : j \in 1..Len(s)}

Coprime210(x) == x % 2 # 0 /\ x % 3 # 0 /\ x % 5 # 0 /\ x % 7 # 0

IsPrime(x) == x > 1 /\ \A d \in 2..(x - 1) : d * d > x \/ x % d # 0

\* int arithmetic wraps around at the width of int
WrapInt(x) == ((x + 2 ^ (IntBits - 1)) % (2 ^ IntBits)) - 2 ^ (IntBits - 1)

---------------------------------------------------------------------------
(***************************************************************************)
(* The wheel and the generators.                                           *)
(***************************************************************************)
wheel ==
    <<4, 2, 4, 6, 2, 6, 4, 2, 4, 6, 6, 2, 6, 4, 2, 6, 4, 6, 8, 4, 2, 4, 2, 4, 8,
      6, 4, 6, 2, 4, 6, 2, 6, 6, 4, 2, 4, 6, 2, 6, 4, 2, 4, 2, 10, 2, 10, 2>>

wheelposTable ==
    [r \in {1, 11, 13, 17, 19, 23, 29, 31, 37, 41, 43, 47, 53, 59, 61, 67, 71,
            73, 79, 83, 89, 97, 101, 103, 107, 109, 113, 121, 127, 131, 137,
            139, 143, 149, 151, 157, 163, 167, 169, 173, 179, 181, 187, 191,
            193, 197, 199, 209} |->
        CASE r = 1 -> 46 [] r = 11 -> 47 [] r = 13 -> 0 [] r = 17 -> 1
          [] r = 19 -> 2 [] r = 23 -> 3 [] r = 29 -> 4 [] r = 31 -> 5
          [] r = 37 -> 6 [] r = 41 -> 7 [] r = 43 -> 8 [] r = 47 -> 9
          [] r = 53 -> 10 [] r = 59 -> 11 [] r = 61 -> 12 [] r = 67 -> 13
          [] r = 71 -> 14 [] r = 73 -> 15 [] r = 79 -> 16 [] r = 83 -> 17
          [] r = 89 -> 18 [] r = 97 -> 19 [] r = 101 -> 20 [] r = 103 -> 21
          [] r = 107 -> 22 [] r = 109 -> 23 [] r = 113 -> 24 [] r = 121 -> 25
          [] r = 127 -> 26 [] r = 131 -> 27 [] r = 137 -> 28 [] r = 139 -> 29
          [] r = 143 -> 30 [] r = 149 -> 31 [] r = 151 -> 32 [] r = 157 -> 33
          [] r = 163 -> 34 [] r = 167 -> 35 [] r = 169 -> 36 [] r = 173 -> 37
          [] r = 179 -> 38 [] r = 181 -> 39 [] r = 187 -> 40 [] r = 191 -> 41
          [] r = 193 -> 42 [] r = 197 -> 43 [] r = 199 -> 44 [] r = 209 -> 45]

\* a variant of wheelpos whose entry for the residue 121 is one position late
wheelposOffByOne(r) ==
    IF r = 121 THEN 26
    ELSE IF r \in DOMAIN wheelposTable THEN wheelposTable[r] ELSE 0

\* wheelpos[r]: a Go map yields the zero value for a key it does not hold
wheelpos(r) == IF r \in DOMAIN wheelposTable THEN wheelposTable[r] ELSE 0

\* a variant of the body of spin's loop that restarts the wheel at index 1
spinStepSkipFirst(g) ==
    [n |-> WrapInt(g.n + g.k * wheel[g.i + 1]),
     k |-> g.k,
     i |-> IF g.i + 1 < 48 THEN g.i + 1 ELSE 1]

\* spin's loop after `out <- n`: n += k * wheel[i]; i++; i = 0 after 48 steps
spinStep(g) ==
    [n |-> WrapInt(g.n + g.k * wheel[g.i + 1]),
     k |-> g.k,
     i |-> IF g.i + 1 < 48 THEN g.i + 1 ELSE 0]

\* the locals of the goroutine spin(n, k, i, bufsize) starts
spinStart(n, k, i) == [n |-> n, k |-> k, i |-> i]

coprime2357 == spinStart(13, 1, 0)

multiples(q) == spinStart(WrapInt(q * q), q, wheelpos(q % 210))

\* Streams are named by their k: 1 is the candidate stream, q is multiples(q).
CandId == 1

NewStream(s) == IF s = CandId THEN coprime2357 ELSE multiples(s)

(***************************************************************************)
(* The spin goroutine: `out <- n` and the loop step after it.  A send on a *)
(* closed channel panics; the closable variant recovers and returns.       *)
(***************************************************************************)
SpinSend(s) ==
    /\ s \in DOMAIN sch
    /\ s \notin sdone
    /\ IF s \in sclosed
         THEN /\ sdone' = sdone \cup {s}
              /\ UNCHANGED <<spin, sch>>
         ELSE /\ Len(sch[s]) < SpinCap
              /\ sch' = [sch EXCEPT ![s] = Append(@, spin[s].n)]
              /\ spin' = [spin EXCEPT ![s] = spinStep(@)]
              /\ UNCHANGED sdone
    /\ UNCHANGED <<mode, sclosed, received, chanVars, proxyVars, pipeVars, wnext>>

---------------------------------------------------------------------------
(***************************************************************************)
(* The generator-only system: one generator and a reader of its channel.   *)
(***************************************************************************)
\* the state of a system that has no feedback channel and no sendproxy
NoFeedback ==
    /\ pin = <<>> /\ primes = <<>> /\ closed = {}
    /\ ppc = "done" /\ buf = <<>> /\ bi = 0 /\ bn = 0 /\ cOut = FALSE
    /\ added = 0 /\ inNil = FALSE
    /\ ring = <<>> /\ first = 1 /\ last = 1 /\ rn = 0
    /\ taken = <<>> /\ fwd = <<>>

\* the state of a system that has no sieve around its goroutines
NoSieve ==
    /\ out = <<>> /\ composites = <<>>
    /\ mpc = "done" /\ min = 0 /\ head = 0 /\ m = 0 /\ h = <<>> /\ minchan = 0
    /\ csent = <<>>
    /\ spc = "done" /\ p = 0 /\ c = 0
    /\ cpc = "done" /\ limit = 0 /\ fcap = 0

Generators == {CandId} \cup {q \in 11..MaxPrime : IsPrime(q)}

TheGen == CHOOSE s \in DOMAIN sch : TRUE

InitSpin ==
    /\ mode = "spin"
    /\ \E s \in Generators :
         /\ spin = (s :> NewStream(s))
         /\ sch = (s :> <<>>)
    /\ sclosed = {}
    /\ sdone = {}
    /\ received = <<>>
    /\ NoFeedback
    /\ NoSieve
    /\ wnext = 1

ReadStream ==
    /\ mode = "spin"
    /\ Len(received) < MaxEmit
    /\ sch[TheGen] # <<>>
    /\ received' = Append(received, Head(sch[TheGen]))
    /\ sch' = [sch EXCEPT ![TheGen] = Tail(@)]
    /\ UNCHANGED <<mode, spin, sclosed, sdone, chanVars, proxyVars, pipeVars, wnext>>

NextSpin == (\E s \in DOMAIN sch : SpinSend(s)) \/ ReadStream

SpecSpin == InitSpin /\ [][NextSpin]_vars

\* everything the generator has sent so far, in order
Sent == received \o sch[TheGen]

\* x and y are consecutive among the integers coprime to 210
NextCoprime(x, y) == x < y /\ Coprime210(y) /\ \A z \in (x + 1)..(y - 1) : ~Coprime210(z)

C10_MultiplesExact ==
    (mode = "spin" /\ TheGen # CandId) =>
        LET q == TheGen IN
        /\ Len(Sent) > 0 => Sent[1] = q * q
        /\ \A j \in 1..Len(Sent) : Sent[j] % q = 0 /\ Coprime210(Sent[j] \div q)
        /\ \A j \in 2..Len(Sent) :
              /\ Sent[j - 1] < Sent[j]
              /\ NextCoprime(Sent[j - 1] \div q, Sent[j] \div q)

\* multiples(13) has sent 169, 221, 247, 299 and has gone around the wheel
C10_Witness ==
    /\ mode = "spin" /\ TheGen = 13
    /\ Len(received) > 48
    /\ SubSeq(received, 1, 4) = <<169, 221, 247, 299>>
    /\ received[49] = 13 * (13 + 210)

---------------------------------------------------------------------------
(***************************************************************************)
(* sendproxy, slice variant (src/unnamed/part_001).  It is written in the  *)
(* Go of early 2010: `x, ok = <-ch` and `ok = ch <- x` are the             *)
(* non-blocking receive and send, a receive from a closed and drained      *)
(* channel yields the zero value, and closed(ch) is true once such a zero  *)
(* value has been received.                                                *)
(***************************************************************************)
\* initial length of buf (1000 in the program)
BufInit == 2
\* bound of the receive loop, `added < 1000` in the program
BatchMax == 2
\* capacity of the channel sendproxy returns (100 slice, 1024 ring)
PinCap == 2
\* capacity of the channel `primes` (100 slice, 1024 ring)
PrimesCap == 1
\* initial size of the ring (1024 in the program)
RingInit == 2
\* values the writer of the proxy-only system sends
MaxWrites == 6

SliceProxy == mode \in {"slice", "sieve"}
RingProxy == mode \in {"ring", "closable"}

Zeros(k) == [j \in 1..k |-> 0]

\* closed(in)
closedIn(cl) == "pin.eof" \in cl

\* a receive that finds its channel ready: the value and the channel afterwards
\* (the zero value, and closed() turning true, from a closed and drained one)
RecvValue(ch) == IF ch # <<>> THEN Head(ch) ELSE 0
RecvRest(ch) == IF ch # <<>> THEN Tail(ch) ELSE ch
RecvClosed(ch, cl) == IF ch # <<>> THEN cl ELSE cl \cup {"pin.eof"}

\* a variant of the first select case that waits for room in buf
sliceRecvReadyBounded ==
    ~inNil /\ (pin # <<>> \/ "pin" \in closed) /\ bn + 1 < Len(buf)

\* the case `e := <-in` of the select can proceed
sliceRecvReady == ~inNil /\ (pin # <<>> \/ "pin" \in closed)

\* a variant of the store that does not expand a full buffer
sliceStoreNoExpand(b, i, n, e) ==
    [buf |-> [b EXCEPT ![((i + n) % Len(b)) + 1] = e], i |-> i, n |-> n + 1]

\* buf[(i+n) % len(buf)] = e; n++; and the expansion when n == len(buf)
sliceStore(b, i, n, e) ==
    LET b1 == [b EXCEPT ![((i + n) % Len(b)) + 1] = e]
        n1 == n + 1
    IN  IF n1 = Len(b1)
          THEN [buf |-> SubSeq(b1, i + 1, Len(b1)) \o SubSeq(b1, 1, i) \o Zeros(n1),
                i |-> 0, n |-> n1]
          ELSE [buf |-> b1, i |-> i, n |-> n1]

\* One pass of the body of the receive loop, with e in hand: the closed(in)
\* test, then the store.  The non-blocking receive that ends the body is the
\* next action.
SliceLoopBody(e, cl, a) ==
    IF closedIn(cl)
      THEN /\ inNil' = TRUE
           /\ added' = a
           /\ UNCHANGED <<buf, bi, bn>>
           /\ IF bn = 0
                THEN /\ closed' = cl \cup {"primes"}
                     /\ ppc' = "done"
                     /\ UNCHANGED cOut
                ELSE /\ closed' = cl
                     /\ cOut' = TRUE
                     /\ ppc' = "select"
      ELSE LET st == sliceStore(buf, bi, bn, e) IN
           /\ buf' = st.buf /\ bi' = st.i /\ bn' = st.n
           /\ added' = a
           /\ closed' = cl
           /\ ppc' = "tryrecv"
           /\ UNCHANGED <<inNil, cOut>>

\* select, case e := <-in, and the first pass of the loop body
SliceRecv ==
    /\ SliceProxy /\ ppc = "select"
    /\ sliceRecvReady
    /\ pin' = RecvRest(pin)
    /\ taken' = IF pin # <<>> THEN Append(taken, Head(pin)) ELSE taken
    /\ SliceLoopBody(RecvValue(pin), RecvClosed(pin, closed), 0)
    /\ UNCHANGED <<primes, fwd, ring, first, last, rn>>
    /\ UNCHANGED nonProxyVars

\* `e, ok = <-in` at the end of the loop body, `added++`, the loop test and
\* the next pass of the body; `c = out` after the loop
SliceTryRecv ==
    /\ SliceProxy /\ ppc = "tryrecv"
    /\ IF pin # <<>> \/ "pin" \in closed
         THEN /\ pin' = RecvRest(pin)
              /\ taken' = IF pin # <<>> THEN Append(taken, Head(pin)) ELSE taken
              /\ IF added + 1 < BatchMax
                   THEN SliceLoopBody(RecvValue(pin), RecvClosed(pin, closed), added + 1)
                   ELSE /\ added' = added + 1
                        /\ closed' = RecvClosed(pin, closed)
                        /\ cOut' = TRUE
                        /\ ppc' = "select"
                        /\ UNCHANGED <<buf, bi, bn, inNil>>
         ELSE /\ cOut' = TRUE
              /\ ppc' = "select"
              /\ UNCHANGED <<pin, taken, closed, buf, bi, bn, added, inNil>>
    /\ UNCHANGED <<primes, fwd, ring, first, last, rn>>
    /\ UNCHANGED nonProxyVars

\* After a send of buf[i]: i++ (wrapping), n--, and the n == 0 test.
SliceAfterSend ==
    /\ bi' = IF bi + 1 = Len(buf) THEN 0 ELSE bi + 1
    /\ bn' = bn - 1
    /\ IF bn - 1 = 0
         THEN IF inNil
                THEN /\ closed' = closed \cup {"primes"}
                     /\ ppc' = "done"
                     /\ UNCHANGED cOut
                ELSE /\ cOut' = FALSE
                     /\ ppc' = "select"
                     /\ UNCHANGED closed
         ELSE /\ ppc' = "trysend"
              /\ UNCHANGED <<cOut, closed>>

\* select, case c <- buf[i]
SliceSend ==
    /\ SliceProxy /\ ppc = "select"
    /\ cOut
    /\ Len(primes) < PrimesCap
    /\ primes' = Append(primes, buf[bi + 1])
    /\ fwd' = Append(fwd, buf[bi + 1])
    /\ SliceAfterSend
    /\ UNCHANGED <<pin, taken, buf, added, inNil, ring, first, last, rn>>
    /\ UNCHANGED nonProxyVars

\* `ok = c <- buf[i]` in the send loop
SliceTrySend ==
    /\ SliceProxy /\ ppc = "trysend"
    /\ IF Len(primes) < PrimesCap
         THEN /\ primes' = Append(primes, buf[bi + 1])
              /\ fwd' = Append(fwd, buf[bi + 1])
              /\ SliceAfterSend
         ELSE /\ ppc' = "select"
              /\ UNCHANGED <<primes, fwd, bi, bn, cOut, closed>>
    /\ UNCHANGED <<pin, taken, buf, added, inNil, ring, first, last, rn>>
    /\ UNCHANGED nonProxyVars

SliceStep == SliceRecv \/ SliceTryRecv \/ SliceSend \/ SliceTrySend

\* the values stored in buf and not yet sent, oldest first
SlicePending == [j \in 1..bn |-> buf[((bi + j - 1) % Len(buf)) + 1]]

---------------------------------------------------------------------------
(***************************************************************************)
(* sendproxy, ring variant (src/sieve3.go).  The ring is the sequence of   *)
(* its slots in Next() order; first and last are positions in it.  A slot  *)
(* that was never written holds 0.                                         *)
(***************************************************************************)
ringNext(r, j) == IF j = Len(r) THEN 1 ELSE j + 1

\* a variant of the store that never extends the ring
ringStoreNoLink(r, f, l, n, e) ==
    LET r1 == [r EXCEPT ![l] = e]
    IN  [ring |-> r1, first |-> f, last |-> ringNext(r1, l), n |-> n]

\* last.Value = e; if last.Next() == first { last.Link(ring.New(n)); n *= 2 };
\* last = last.Next()
ringStore(r, f, l, n, e) ==
    LET r1 == [r EXCEPT ![l] = e]
    IN  IF ringNext(r1, l) = f
          THEN [ring |-> SubSeq(r1, 1, l) \o Zeros(n) \o SubSeq(r1, l + 1, Len(r1)),
                first |-> IF f > l THEN f + n ELSE f,
                last |-> l + 1,
                n |-> 2 * n]
          ELSE [ring |-> r1, first |-> f, last |-> ringNext(r1, l), n |-> n]

\* select, case e,ok := <-proxy; on !ok the goroutine returns and its
\* deferred function closes `out`
RingRecv ==
    /\ RingProxy /\ ppc = "select"
    /\ pin # <<>> \/ "pin" \in closed
    /\ IF pin # <<>>
         THEN LET st == ringStore(ring, first, last, rn, Head(pin)) IN
              /\ pin' = Tail(pin)
              /\ taken' = Append(taken, Head(pin))
              /\ ring' = st.ring /\ first' = st.first /\ last' = st.last
              /\ rn' = st.n
              /\ UNCHANGED <<ppc, closed>>
         ELSE /\ closed' = closed \cup {"primes"}
              /\ ppc' = "done"
              /\ UNCHANGED <<pin, taken, ring, first, last, rn>>
    /\ UNCHANGED <<primes, fwd, buf, bi, bn, cOut, added, inNil>>
    /\ UNCHANGED nonProxyVars

\* select, case c <- e, where c is nil when first == last and e = first.Value
RingSend ==
    /\ RingProxy /\ ppc = "select"
    /\ first # last
    /\ Len(primes) < PrimesCap
    /\ primes' = Append(primes, ring[first])
    /\ fwd' = Append(fwd, ring[first])
    /\ first' = ringNext(ring, first)
    /\ UNCHANGED <<pin, closed, taken, ppc, ring, last, rn, buf, bi, bn, cOut, added, inNil>>
    /\ UNCHANGED nonProxyVars

RingStep == RingRecv \/ RingSend

\* the slots from first up to last, last excluded, in Next() order
RingPending ==
    LET k == IF last >= first THEN last - first ELSE last + Len(ring) - first
    IN  [j \in 1..k |-> ring[((first + j - 2) % Len(ring)) + 1]]

ProxyStep == SliceStep \/ RingStep

---------------------------------------------------------------------------
(***************************************************************************)
(* The proxy-only system: a writer that sends 1, 2, 3, ... on the channel  *)
(* sendproxy returned and may close it, and a reader of `out` that may, or *)
(* may not, receive.                                                       *)
(***************************************************************************)
SliceProxyStart ==
    /\ ppc = "select" /\ buf = Zeros(BufInit) /\ bi = 0 /\ bn = 0
    /\ cOut = FALSE /\ added = 0 /\ inNil = FALSE
    /\ ring = <<>> /\ first = 1 /\ last = 1 /\ rn = 0
    /\ taken = <<>> /\ fwd = <<>>

RingProxyStart ==
    /\ ppc = "select" /\ buf = <<>> /\ bi = 0 /\ bn = 0
    /\ cOut = FALSE /\ added = 0 /\ inNil = FALSE
    /\ ring = Zeros(RingInit) /\ first = 1 /\ last = 1 /\ rn = RingInit
    /\ taken = <<>> /\ fwd = <<>>

NoGenerators == spin = <<>> /\ sch = <<>> /\ sclosed = {} /\ sdone = {}

InitProxy ==
    /\ mode \in {"slice", "ring"}
    /\ IF mode = "slice" THEN SliceProxyStart ELSE RingProxyStart
    /\ pin = <<>> /\ primes = <<>> /\ closed = {}
    /\ NoGenerators
    /\ NoSieve
    /\ wnext = 1
    /\ received = <<>>

Write ==
    /\ mode \in {"slice", "ring"}
    /\ wnext <= MaxWrites
    /\ "pin" \notin closed
    /\ Len(pin) < PinCap
    /\ pin' = Append(pin, wnext)
    /\ wnext' = wnext + 1
    /\ UNCHANGED <<mode, genVars, primes, closed, proxyVars, pipeVars, received>>

WriterClose ==
    /\ mode \in {"slice", "ring"}
    /\ "pin" \notin closed
    /\ closed' = closed \cup {"pin"}
    /\ UNCHANGED <<mode, genVars, pin, primes, proxyVars, pipeVars, wnext, received>>

Read ==
    /\ mode \in {"slice", "ring"}
    /\ primes # <<>>
    /\ received' = Append(received, Head(primes))
    /\ primes' = Tail(primes)
    /\ UNCHANGED <<mode, genVars, pin, closed, proxyVars, pipeVars, wnext>>

NextProxy ==
    \/ Write \/ WriterClose \/ Read
    \/ SliceRecv \/ SliceTryRecv \/ SliceSend \/ SliceTrySend
    \/ RingRecv \/ RingSend

SpecProxy == InitProxy /\ [][NextProxy]_vars

\* The scheduler runs every goroutine that can run; nothing obliges the
\* reader of `out` to receive, nor the writer to close.
SpecProxyFair == SpecProxy /\ WF_vars(Write) /\ WF_vars(ProxyStep)

\* C3: a send to the channel sendproxy returned does not block for ever: as
\* long as the writer does not close the channel, every one of its MaxWrites
\* sends completes, whether or not anything is ever received from `out`.
C3_WriterNeverBlocks == <>(wnext > MaxWrites \/ "pin" \in closed)

\* every send has completed although nothing was received from `out`, and the
\* proxy holds more values than its buffer had room for at the start
C3_Witness ==
    /\ mode \in {"slice", "ring"}
    /\ wnext > MaxWrites /\ received = <<>> /\ "pin" \notin closed
    /\ Len(primes) = PrimesCap
    /\ Len(buf) > BufInit \/ Len(ring) > RingInit

\* C4: the slice-based sendproxy loses and reorders nothing: the values it has
\* sent on `out`, followed by the values it still holds in buf, are the
\* values it has received from its input, in the order received.
C4_SliceLossless == mode = "slice" => fwd \o SlicePending = taken

\* C5: while its input is open, the ring-based sendproxy holds every value it
\* has received and not yet sent, in the order received, and first == last
\* exactly when it holds none; what it has sent is what it received first.
C5_RingLossless ==
    (mode = "ring" /\ "pin" \notin closed) =>
        /\ fwd \o RingPending = taken
        /\ (first = last) <=> (Len(fwd) = Len(taken))

\* the ring has been extended twice, values have gone round it, and several
\* values are stored while others have been delivered
C5_Witness ==
    /\ mode = "ring" /\ "pin" \notin closed
    /\ Len(ring) > 2 * RingInit
    /\ Len(received) >= 2
    /\ Len(RingPending) >= 3
    /\ first > 1

---------------------------------------------------------------------------
(***************************************************************************)
(* Sieve() with the slice-based sendproxy (src/unnamed/part_001).          *)
(***************************************************************************)
\* capacity of `out` (100 in the program); it holds 2, 3, 5, 7, 11 at the start
OutCap == 5
\* capacity of `composites` (500 in the program)
CompCap == 1
\* the caller's argument n, with every interleaving
MaxN == 14
\* the caller's argument n, in the schedules of SpecSieveSched
MaxNSched == 365

\* a seed of min below the first head, 121
minSeedLow == 11 * 11 - 2
\* a seed of min that is the head of the second stream, 13 * 13
minSeedSquare == 13 * 13
\* min := 143, before the merging goroutine's loop
minSeed == 143

\* The heap of PeekCh: h maps each stream it holds to that stream's head.
\* heap.Pop yields a stream whose head is least (any of them when several are).
heapPush(hp, s, v) == [t \in DOMAIN hp \cup {s} |-> IF t = s THEN v ELSE hp[t]]
heapRemove(hp, s) == [t \in DOMAIN hp \ {s} |-> hp[t]]
\* a heap.Pop that yields any stream of the heap
heapMinsAny(hp) == DOMAIN hp
heapMins(hp) == {s \in DOMAIN hp : \A t \in DOMAIN hp : hp[s] <= hp[t]}

\* minchan := heap.Pop(h).(*PeekCh); min = minchan.head, and on to the
\* receive from minchan.ch; heap.Pop of an empty heap panics
HeapPopTo(hp, pc) ==
    IF DOMAIN hp = {}
      THEN /\ mpc' = "panic"
           /\ h' = hp
           /\ UNCHANGED <<min, minchan>>
      ELSE \E s \in heapMins(hp) :
              /\ minchan' = s
              /\ min' = hp[s]
              /\ h' = heapRemove(hp, s)
              /\ mpc' = pc

\* the test of `for min == head`, with the heap hp
MergeSecondTest(hp, mn, hd) ==
    IF mn = hd
      THEN HeapPopTo(hp, "recvMin2")
      ELSE /\ mpc' = "sendHead"
           /\ h' = hp
           /\ min' = mn
           /\ UNCHANGED minchan

\* the test of `for min < head`, with the heap hp
MergeFirstTest(hp, mn, hd) ==
    IF mn < hd
      THEN /\ mpc' = "sendMin"
           /\ h' = hp
           /\ min' = mn
           /\ UNCHANGED minchan
      ELSE MergeSecondTest(hp, mn, hd)

\* what no action of the merging goroutine of this variant touches
mergerFrame ==
    <<mode, sclosed, sdone, pin, closed, proxyVars, out, sieveVars, cpc, limit, fcap,
      wnext, received>>

\* m := multiples(<-primes)
MRecvPrime ==
    /\ mode = "sieve" /\ mpc = "recvPrime"
    /\ primes # <<>>
    /\ LET q == Head(primes) IN
         /\ m' = q
         /\ spin' = [s \in DOMAIN spin \cup {q} |-> IF s = q THEN multiples(q) ELSE spin[s]]
         /\ sch' = [s \in DOMAIN sch \cup {q} |-> IF s = q THEN <<>> ELSE sch[s]]
    /\ primes' = Tail(primes)
    /\ mpc' = "recvHead"
    /\ UNCHANGED <<min, head, h, minchan, csent, composites, mergerFrame>>

\* head := <-m
MRecvHead ==
    /\ mode = "sieve" /\ mpc = "recvHead"
    /\ sch[m] # <<>>
    /\ head' = Head(sch[m])
    /\ sch' = [sch EXCEPT ![m] = Tail(@)]
    /\ MergeFirstTest(h, min, Head(sch[m]))
    /\ UNCHANGED <<m, csent, spin, primes, composites, mergerFrame>>

\* composites <- min, then heap.Pop
MSendMin ==
    /\ mode = "sieve" /\ mpc = "sendMin"
    /\ Len(composites) < CompCap
    /\ composites' = Append(composites, min)
    /\ csent' = Append(csent, min)
    /\ HeapPopTo(h, "recvMin1")
    /\ UNCHANGED <<head, m, spin, sch, primes, mergerFrame>>

\* minchan.head = <-minchan.ch; heap.Push(h, minchan): the same two statements
\* end the body of `for min < head` and of `for min == head`, and the test
\* that follows is the test of the loop they stand in
MRecvMin ==
    /\ mode = "sieve" /\ mpc \in {"recvMin1", "recvMin2"}
    /\ sch[minchan] # <<>>
    /\ sch' = [sch EXCEPT ![minchan] = Tail(@)]
    /\ IF mpc = "recvMin1"
         THEN MergeFirstTest(heapPush(h, minchan, Head(sch[minchan])), min, head)
         ELSE MergeSecondTest(heapPush(h, minchan, Head(sch[minchan])), min, head)
    /\ UNCHANGED <<head, m, csent, spin, primes, composites, mergerFrame>>

\* composites <- head
MSendHead ==
    /\ mode = "sieve" /\ mpc = "sendHead"
    /\ Len(composites) < CompCap
    /\ composites' = Append(composites, head)
    /\ csent' = Append(csent, head)
    /\ mpc' = "pushNew"
    /\ UNCHANGED <<min, head, m, h, minchan, spin, sch, primes, mergerFrame>>

\* an end of the iteration that receives from m and pushes nothing
MPushNewDrop ==
    /\ mode = "sieve" /\ mpc = "pushNew"
    /\ sch[m] # <<>>
    /\ sch' = [sch EXCEPT ![m] = Tail(@)]
    /\ mpc' = "recvPrime"
    /\ UNCHANGED <<min, head, m, h, minchan, csent, spin, primes, composites, mergerFrame>>

\* heap.Push(h, &PeekCh{<-m, m})
MPushNew ==
    /\ mode = "sieve" /\ mpc = "pushNew"
    /\ sch[m] # <<>>
    /\ h' = heapPush(h, m, Head(sch[m]))
    /\ sch' = [sch EXCEPT ![m] = Tail(@)]
    /\ mpc' = "recvPrime"
    /\ UNCHANGED <<min, head, m, minchan, csent, spin, primes, composites, mergerFrame>>

MergerStep ==
    MRecvPrime \/ MRecvHead \/ MSendMin \/ MRecvMin \/ MSendHead \/ MPushNew

\* The sieving goroutine.  After a receive of c or of p: the test of
\* `for p < c`, and of `if p == c` once the loop is left.
SieveTest(pp, cc) ==
    spc' = IF pp < cc THEN "sendPrime" ELSE IF pp = cc THEN "recvCand2" ELSE "recvComp"

\* what no action of the sieving goroutine of this variant touches
sieverFrame ==
    <<mode, spin, sclosed, sdone, primes, closed, proxyVars, mergeVars, cpc, limit, fcap,
      wnext, received>>

\* p := <-candidates, before the loop
SRecvFirst ==
    /\ mode = "sieve" /\ spc = "recvFirst"
    /\ sch[CandId] # <<>>
    /\ p' = Head(sch[CandId])
    /\ sch' = [sch EXCEPT ![CandId] = Tail(@)]
    /\ spc' = "recvComp"
    /\ UNCHANGED <<c, pin, out, composites, sieverFrame>>

\* c := <-composites
SRecvComp ==
    /\ mode = "sieve" /\ spc = "recvComp"
    /\ composites # <<>>
    /\ c' = Head(composites)
    /\ composites' = Tail(composites)
    /\ SieveTest(p, Head(composites))
    /\ UNCHANGED <<p, pin, out, sch, sieverFrame>>

\* primes <- p, where primes is the channel sendproxy returned
SSendPrime ==
    /\ mode = "sieve" /\ spc = "sendPrime"
    /\ Len(pin) < PinCap
    /\ pin' = Append(pin, p)
    /\ spc' = "sendOut"
    /\ UNCHANGED <<p, c, out, composites, sch, sieverFrame>>

\* out <- p
SSendOut ==
    /\ mode = "sieve" /\ spc = "sendOut"
    /\ Len(out) < OutCap
    /\ out' = Append(out, p)
    /\ spc' = "recvCand"
    /\ UNCHANGED <<p, c, pin, composites, sch, sieverFrame>>

\* p = <-candidates: at the end of the body of `for p < c`, followed by the
\* test of that loop, and in `if p == c`, followed by the next `c := <-composites`
SRecvCand ==
    /\ mode = "sieve" /\ spc \in {"recvCand", "recvCand2"}
    /\ sch[CandId] # <<>>
    /\ p' = Head(sch[CandId])
    /\ sch' = [sch EXCEPT ![CandId] = Tail(@)]
    /\ IF spc = "recvCand"
         THEN SieveTest(Head(sch[CandId]), c)
         ELSE spc' = "recvComp"
    /\ UNCHANGED <<c, pin, out, composites, sieverFrame>>

SieverStep ==
    SRecvFirst \/ SRecvComp \/ SSendPrime \/ SSendOut \/ SRecvCand

\* main: p := <-primes; print p if p <= n, else return
CallerRecv ==
    /\ mode = "sieve" /\ cpc = "recv"
    /\ out # <<>>
    /\ received' = Append(received, Head(out))
    /\ out' = Tail(out)
    /\ cpc' = IF Head(out) <= limit THEN "recv" ELSE "done"
    /\ UNCHANGED <<mode, genVars, chanVars, proxyVars, composites, mergeVars,
                   sieveVars, limit, fcap, wnext>>

\* The state when Sieve() returns: 2, 3, 5, 7, 11 are in `out` and 11 in
\* `primes`; the goroutines stand at their first channel operation.
InitSieve(n) ==
    /\ mode = "sieve"
    /\ limit = n /\ fcap = 0
    /\ out = <<2, 3, 5, 7, 11>> /\ composites = <<>>
    /\ primes = <<11>> /\ pin = <<>> /\ closed = {}
    /\ SliceProxyStart
    /\ spin = (CandId :> coprime2357) /\ sch = (CandId :> <<>>)
    /\ sclosed = {} /\ sdone = {}
    /\ mpc = "recvPrime" /\ min = minSeed /\ head = 0 /\ m = 0 /\ h = <<>> /\ minchan = 0
    /\ csent = <<>>
    /\ spc = "recvFirst" /\ p = 0 /\ c = 0
    /\ cpc = "recv"
    /\ wnext = 1
    /\ received = <<>>

NextSieve ==
    \/ \E s \in DOMAIN sch : SpinSend(s)
    \/ SliceRecv \/ SliceTryRecv \/ SliceSend \/ SliceTrySend
    \/ MRecvPrime \/ MRecvHead \/ MSendMin \/ MRecvMin \/ MSendHead \/ MPushNew
    \/ SRecvFirst \/ SRecvComp \/ SSendPrime \/ SSendOut \/ SRecvCand
    \/ CallerRecv

SpecSieve == InitSieve(MaxN) /\ [][NextSieve]_vars

SpinStep == \E s \in DOMAIN sch : SpinSend(s)

\* The scheduler runs every goroutine that can run.
SpecSieveFair ==
    /\ SpecSieve
    /\ WF_vars(SpinStep) /\ WF_vars(SliceStep) /\ WF_vars(MergerStep)
    /\ WF_vars(SieverStep) /\ WF_vars(CallerRecv)

\* Some of the schedules of the same goroutines: a generator that can send
\* runs first, then the caller, then the sieving goroutine, then sendproxy,
\* and the merging goroutine when none of these can run.  Every behaviour of
\* SpecSieveSched is a behaviour of the pipeline; MaxNSched lets the caller
\* read past the square of a prime the pipeline found itself.
SpinReady == \E s \in DOMAIN sch : s \notin sdone /\ (s \in sclosed \/ Len(sch[s]) < SpinCap)
CallerReady == cpc = "recv" /\ out # <<>>
SieverReady ==
    \/ spc \in {"recvFirst", "recvCand", "recvCand2"} /\ sch[CandId] # <<>>
    \/ spc = "recvComp" /\ composites # <<>>
    \/ spc = "sendPrime" /\ Len(pin) < PinCap
    \/ spc = "sendOut" /\ Len(out) < OutCap
ProxyReady ==
    \/ ppc \in {"tryrecv", "trysend"}
    \/ ppc = "select" /\ (sliceRecvReady \/ (cOut /\ Len(primes) < PrimesCap))

CallerTurn == ~SpinReady
SieverTurn == CallerTurn /\ ~CallerReady
ProxyTurn == SieverTurn /\ ~SieverReady
MergerTurn == ProxyTurn /\ ~ProxyReady

NextSieveSched ==
    \/ \E s \in DOMAIN sch : SpinSend(s)
    \/ CallerTurn /\ CallerRecv
    \/ SieverTurn /\ SRecvFirst
    \/ SieverTurn /\ SRecvComp
    \/ SieverTurn /\ SSendPrime
    \/ SieverTurn /\ SSendOut
    \/ SieverTurn /\ SRecvCand
    \/ ProxyTurn /\ SliceRecv
    \/ ProxyTurn /\ SliceTryRecv
    \/ ProxyTurn /\ SliceSend
    \/ ProxyTurn /\ SliceTrySend
    \/ MergerTurn /\ MRecvPrime
    \/ MergerTurn /\ MRecvHead
    \/ MergerTurn /\ MSendMin
    \/ MergerTurn /\ MRecvMin
    \/ MergerTurn /\ MSendHead
    \/ MergerTurn /\ MPushNew

SpecSieveSched == InitSieve(MaxNSched) /\ [][NextSieveSched]_vars

\* the primes up to MaxPrime, which is above every value the caller reads
PrimeSet == {q \in 2..MaxPrime : IsPrime(q)}

\* C1: the K-th value received from the channel Sieve() returned is the K-th
\* prime, for every K: the values are the primes, in increasing order, none
\* twice and none left out.
C1_OutputExact ==
    \A k \in 1..Len(received) :
        /\ received[k] \in PrimeSet
        /\ Cardinality({q \in PrimeSet : q <= received[k]}) = k

\* the scheduler's readiness tests say what the actions' guards say
SchedReadyOK ==
    /\ SpinReady <=> ENABLED SpinStep
    /\ CallerReady <=> ENABLED CallerRecv
    /\ SieverReady <=> ENABLED SieverStep
    /\ ProxyReady <=> ENABLED SliceStep

\* C2 (in part): the state of the circular wait: the sieving goroutine cannot
\* register its prime, the merging goroutine cannot move, and sendproxy can
\* release neither
MergerBlocked ==
    \/ mpc = "recvPrime" /\ primes = <<>>
    \/ mpc \in {"sendMin", "sendHead"} /\ Len(composites) = CompCap
CircularWait ==
    /\ spc = "sendPrime" /\ Len(pin) = PinCap
    /\ MergerBlocked
    /\ ~ProxyReady

\* the caller has been handed every prime up to its n
Delivered ==
    /\ cpc = "done"
    /\ \A q \in 2..limit : IsPrime(q) => q \in Range(received)

\* C2: with the unbounded sendproxy the pipeline does not deadlock: under
\* fair scheduling the caller, which keeps receiving, is handed every prime
\* up to its n, and the circular wait is not reachable: whenever the sieving
\* goroutine waits to register a prime, sendproxy can receive it.
C2_NoDeadlock == []~CircularWait /\ <>Delivered

\* the sieving goroutine waits to register a prime while the merging
\* goroutine waits too, sendproxy holding more values than its buffer had
\* room for at the start
C2_Witness ==
    /\ mode = "sieve"
    /\ spc = "sendPrime" /\ Len(pin) = PinCap
    /\ MergerBlocked
    /\ Len(buf) > BufInit

\* C6: the values the merging goroutine has sent on `composites` are strictly
\* increasing: no value is sent twice.
C6_StrictlyIncreasing ==
    \A j \in 1..Len(csent) : \A k \in 1..Len(csent) : j < k => csent[j] < csent[k]

---------------------------------------------------------------------------
(***************************************************************************)
(* Sieve() of the closable variant (src/sieve3.go): the ring sendproxy,    *)
(* and goroutines that end when a channel they use is closed.  A send on a *)
(* closed channel and a close of a closed channel panic; a goroutine's     *)
(* deferred function runs when it returns or panics.  The caller receives  *)
(* from the channel Sieve() returned and closes it.                        *)
(***************************************************************************)
\* the caller's argument n in the closable variant
MaxNClose == 3

\* what no action of the merging goroutine of this variant touches
mergerFrameC ==
    <<mode, sdone, pin, closed, proxyVars, out, sieveVars, cpc, limit, fcap, wnext,
      received>>

\* p,ok := <-primes and p,ok = <-primes; on !ok the goroutine returns, else
\* m = multiples(p)
CMRecvPrime ==
    /\ mode = "closable" /\ mpc = "recvPrime"
    /\ primes # <<>> \/ "primes" \in closed
    /\ IF primes # <<>>
         THEN LET q == Head(primes) IN
              /\ m' = q
              /\ spin' = [s \in DOMAIN spin \cup {q} |->
                            IF s = q THEN multiples(q) ELSE spin[s]]
              /\ sch' = [s \in DOMAIN sch \cup {q} |-> IF s = q THEN <<>> ELSE sch[s]]
              /\ primes' = Tail(primes)
              /\ mpc' = "recvHead"
         ELSE /\ mpc' = "closeM"
              /\ UNCHANGED <<m, spin, sch, primes>>
    /\ UNCHANGED <<min, head, h, minchan, csent, composites, sclosed, mergerFrameC>>

\* head := <-m
CMRecvHead ==
    /\ mode = "closable" /\ mpc = "recvHead"
    /\ sch[m] # <<>>
    /\ head' = Head(sch[m])
    /\ sch' = [sch EXCEPT ![m] = Tail(@)]
    /\ MergeFirstTest(h, min, Head(sch[m]))
    /\ UNCHANGED <<m, csent, spin, primes, composites, sclosed, mergerFrameC>>

\* the merging goroutine returns or panics: its deferred function runs next
MergerEnds == mpc' = "closeM" /\ UNCHANGED <<h, min, minchan>>

\* composites <- min, then heap.Pop
CMSendMin ==
    /\ mode = "closable" /\ mpc = "sendMin"
    /\ "composites" \in closed \/ Len(composites) < CompCap
    /\ IF "composites" \in closed
         THEN MergerEnds /\ UNCHANGED <<composites, csent>>
         ELSE /\ composites' = Append(composites, min)
              /\ csent' = Append(csent, min)
              /\ IF DOMAIN h = {} THEN MergerEnds ELSE HeapPopTo(h, "recvMin1")
    /\ UNCHANGED <<head, m, spin, sch, primes, sclosed, mergerFrameC>>

\* minchan.head,ok = <-minchan.ch; if !ok { return }; heap.Push(&h, minchan)
CMRecvMin ==
    /\ mode = "closable" /\ mpc \in {"recvMin1", "recvMin2"}
    /\ sch[minchan] # <<>> \/ minchan \in sclosed
    /\ IF sch[minchan] # <<>>
         THEN /\ sch' = [sch EXCEPT ![minchan] = Tail(@)]
              /\ IF mpc = "recvMin1"
                   THEN MergeFirstTest(heapPush(h, minchan, Head(sch[minchan])), min, head)
                   ELSE MergeSecondTest(heapPush(h, minchan, Head(sch[minchan])), min, head)
         ELSE MergerEnds /\ UNCHANGED sch
    /\ UNCHANGED <<head, m, csent, spin, primes, composites, sclosed, mergerFrameC>>

\* composites <- head
CMSendHead ==
    /\ mode = "closable" /\ mpc = "sendHead"
    /\ "composites" \in closed \/ Len(composites) < CompCap
    /\ IF "composites" \in closed
         THEN /\ mpc' = "closeM"
              /\ UNCHANGED <<composites, csent>>
         ELSE /\ composites' = Append(composites, head)
              /\ csent' = Append(csent, head)
              /\ mpc' = "pushNew"
    /\ UNCHANGED <<min, head, m, h, minchan, spin, sch, primes, sclosed, mergerFrameC>>

\* heap.Push(&h, &PeekCh{<-m, m})
CMPushNew ==
    /\ mode = "closable" /\ mpc = "pushNew"
    /\ sch[m] # <<>>
    /\ h' = heapPush(h, m, Head(sch[m]))
    /\ sch' = [sch EXCEPT ![m] = Tail(@)]
    /\ mpc' = "recvPrime"
    /\ UNCHANGED <<min, head, m, minchan, csent, spin, primes, composites, sclosed,
                   mergerFrameC>>

\* deferred: close(m); a close of a nil or of a closed channel panics, here
\* in the deferred function itself, before its recover()
CMDeferCloseM ==
    /\ mode = "closable" /\ mpc = "closeM"
    /\ IF m = 0 \/ m \in sclosed
         THEN mpc' = "crashed" /\ UNCHANGED sclosed
         ELSE mpc' = "closeHeap" /\ sclosed' = sclosed \cup {m}
    /\ UNCHANGED <<min, head, m, h, minchan, csent, spin, sch, primes, composites,
                   mergerFrameC>>

\* a variant of PeekCh.Close that receives what the channel holds and does
\* not close it
PeekChCloseDrainOnly(s) ==
    /\ sch' = [sch EXCEPT ![s] = <<>>]
    /\ UNCHANGED sclosed

\* PeekCh.Close: close(pc.ch) and the receives that drain it; the panic of a
\* close of a closed channel is recovered in Close, which then drains nothing
PeekChClose(s) ==
    IF s \in sclosed
      THEN UNCHANGED <<sclosed, sch>>
      ELSE /\ sclosed' = sclosed \cup {s}
           /\ sch' = [sch EXCEPT ![s] = <<>>]

\* a variant of the deferred h.Close() in which the close of a channel
\* already closed is not recovered
CMDeferCloseHeapNoRecover ==
    /\ mode = "closable" /\ mpc = "closeHeap"
    /\ IF DOMAIN h = {}
         THEN /\ mpc' = "done"
              /\ UNCHANGED <<h, sclosed, sch>>
         ELSE \E s \in DOMAIN h :
                /\ h' = heapRemove(h, s)
                /\ IF s \in sclosed
                     THEN mpc' = "crashed" /\ UNCHANGED <<sclosed, sch>>
                     ELSE PeekChClose(s) /\ UNCHANGED mpc
    /\ UNCHANGED <<min, head, m, minchan, csent, spin, primes, composites, mergerFrameC>>

\* deferred: h.Close(), one Pop().(*PeekCh).Close() at a time; then h = nil
\* and recover()
CMDeferCloseHeap ==
    /\ mode = "closable" /\ mpc = "closeHeap"
    /\ IF DOMAIN h = {}
         THEN /\ mpc' = "done"
              /\ UNCHANGED <<h, sclosed, sch>>
         ELSE \E s \in DOMAIN h :
                /\ h' = heapRemove(h, s)
                /\ PeekChClose(s)
                /\ UNCHANGED mpc
    /\ UNCHANGED <<min, head, m, minchan, csent, spin, primes, composites, mergerFrameC>>

MergerStepC ==
    \/ CMRecvPrime \/ CMRecvHead \/ CMSendMin \/ CMRecvMin \/ CMSendHead \/ CMPushNew
    \/ CMDeferCloseM \/ CMDeferCloseHeap

\* what no action of the sieving goroutine of this variant touches
sieverFrameC ==
    <<mode, spin, sdone, primes, proxyVars, mergeVars, cpc, limit, fcap, wnext, received>>

\* p := <-candidates, before the deferred function is set
CSRecvFirst ==
    /\ mode = "closable" /\ spc = "recvFirst"
    /\ sch[CandId] # <<>>
    /\ p' = Head(sch[CandId])
    /\ sch' = [sch EXCEPT ![CandId] = Tail(@)]
    /\ spc' = "recvComp"
    /\ UNCHANGED <<c, pin, out, composites, closed, sclosed, sieverFrameC>>

\* c := <-composites
CSRecvComp ==
    /\ mode = "closable" /\ spc = "recvComp"
    /\ composites # <<>>
    /\ c' = Head(composites)
    /\ composites' = Tail(composites)
    /\ SieveTest(p, Head(composites))
    /\ UNCHANGED <<p, pin, out, sch, closed, sclosed, sieverFrameC>>

\* primes <- p, where primes is the channel sendproxy returned
CSSendPrime ==
    /\ mode = "closable" /\ spc = "sendPrime"
    /\ "pin" \in closed \/ Len(pin) < PinCap
    /\ IF "pin" \in closed
         THEN spc' = "closePrimes" /\ UNCHANGED pin
         ELSE spc' = "sendOut" /\ pin' = Append(pin, p)
    /\ UNCHANGED <<p, c, out, composites, sch, closed, sclosed, sieverFrameC>>

\* out <- p; it panics once the caller has closed out
CSSendOut ==
    /\ mode = "closable" /\ spc = "sendOut"
    /\ "out" \in closed \/ Len(out) < OutCap
    /\ IF "out" \in closed
         THEN spc' = "closePrimes" /\ UNCHANGED out
         ELSE spc' = "recvCand" /\ out' = Append(out, p)
    /\ UNCHANGED <<p, c, pin, composites, sch, closed, sclosed, sieverFrameC>>

\* p = <-candidates, in `for p < c` and in `if p == c`
CSRecvCand ==
    /\ mode = "closable" /\ spc \in {"recvCand", "recvCand2"}
    /\ sch[CandId] # <<>>
    /\ p' = Head(sch[CandId])
    /\ sch' = [sch EXCEPT ![CandId] = Tail(@)]
    /\ IF spc = "recvCand"
         THEN SieveTest(Head(sch[CandId]), c)
         ELSE spc' = "recvComp"
    /\ UNCHANGED <<c, pin, out, composites, closed, sclosed, sieverFrameC>>

\* deferred: close(primes), the channel sendproxy returned
CSDeferClosePrimes ==
    /\ mode = "closable" /\ spc = "closePrimes"
    /\ IF "pin" \in closed
         THEN spc' = "crashed" /\ UNCHANGED closed
         ELSE spc' = "closeCand" /\ closed' = closed \cup {"pin"}
    /\ UNCHANGED <<p, c, pin, out, composites, sch, sclosed, sieverFrameC>>

\* deferred: close(candidates)
CSDeferCloseCand ==
    /\ mode = "closable" /\ spc = "closeCand"
    /\ IF CandId \in sclosed
         THEN spc' = "crashed" /\ UNCHANGED sclosed
         ELSE spc' = "drainCand" /\ sclosed' = sclosed \cup {CandId}
    /\ UNCHANGED <<p, c, pin, out, composites, sch, closed, sieverFrameC>>

\* deferred: for ok := true; ok; _,ok = <-candidates {}
CSDeferDrainCand ==
    /\ mode = "closable" /\ spc = "drainCand"
    /\ sch' = [sch EXCEPT ![CandId] = <<>>]
    /\ spc' = "closeComp"
    /\ UNCHANGED <<p, c, pin, out, composites, closed, sclosed, sieverFrameC>>

\* deferred: close(composites)
CSDeferCloseComp ==
    /\ mode = "closable" /\ spc = "closeComp"
    /\ IF "composites" \in closed
         THEN spc' = "crashed" /\ UNCHANGED closed
         ELSE spc' = "drainComp" /\ closed' = closed \cup {"composites"}
    /\ UNCHANGED <<p, c, pin, out, composites, sch, sclosed, sieverFrameC>>

\* deferred: for ok := true; ok; _,ok = <-composites {}, then recover()
CSDeferDrainComp ==
    /\ mode = "closable" /\ spc = "drainComp"
    /\ composites' = <<>>
    /\ spc' = "done"
    /\ UNCHANGED <<p, c, pin, out, sch, closed, sclosed, sieverFrameC>>

SieverStepC ==
    \/ CSRecvFirst \/ CSRecvComp \/ CSSendPrime \/ CSSendOut \/ CSRecvCand
    \/ CSDeferClosePrimes \/ CSDeferCloseCand \/ CSDeferDrainCand
    \/ CSDeferCloseComp \/ CSDeferDrainComp

\* what the caller of this variant leaves alone, but for out and closed
callerFrameC ==
    <<mode, genVars, pin, primes, proxyVars, composites, mergeVars, sieveVars, limit, fcap,
      wnext>>

\* the caller receives from the channel Sieve() returned, up to the first
\* value above its n
CallerRecvC ==
    /\ mode = "closable" /\ cpc = "recv"
    /\ out # <<>>
    /\ received' = Append(received, Head(out))
    /\ out' = Tail(out)
    /\ cpc' = IF Head(out) <= limit THEN "recv" ELSE "stop"
    /\ UNCHANGED <<closed, callerFrameC>>

\* the caller closes the channel Sieve() returned, at any moment
CallerClose ==
    /\ mode = "closable" /\ cpc \in {"recv", "stop"}
    /\ closed' = closed \cup {"out"}
    /\ cpc' = "closed"
    /\ UNCHANGED <<out, received, callerFrameC>>

\* the caller closes that channel once more: close of a closed channel panics
CallerCloseAgain ==
    /\ mode = "closable" /\ cpc = "closed"
    /\ cpc' = IF "out" \in closed THEN "panicked" ELSE "closed"
    /\ UNCHANGED <<out, closed, received, callerFrameC>>

\* The state when Sieve() returns.
InitClosable(n) ==
    /\ mode = "closable"
    /\ limit = n /\ fcap = 0
    /\ out = <<2, 3, 5, 7, 11>> /\ composites = <<>>
    /\ primes = <<11>> /\ pin = <<>> /\ closed = {}
    /\ RingProxyStart
    /\ spin = (CandId :> coprime2357) /\ sch = (CandId :> <<>>)
    /\ sclosed = {} /\ sdone = {}
    /\ mpc = "recvPrime" /\ min = minSeed /\ head = 0 /\ m = 0 /\ h = <<>> /\ minchan = 0
    /\ csent = <<>>
    /\ spc = "recvFirst" /\ p = 0 /\ c = 0
    /\ cpc = "recv"
    /\ wnext = 1
    /\ received = <<>>

NextClosable ==
    \/ \E s \in DOMAIN sch : SpinSend(s)
    \/ RingRecv \/ RingSend
    \/ CMRecvPrime \/ CMRecvHead \/ CMSendMin \/ CMRecvMin \/ CMSendHead \/ CMPushNew
    \/ CMDeferCloseM \/ CMDeferCloseHeap
    \/ CSRecvFirst \/ CSRecvComp \/ CSSendPrime \/ CSSendOut \/ CSRecvCand
    \/ CSDeferClosePrimes \/ CSDeferCloseCand \/ CSDeferDrainCand
    \/ CSDeferCloseComp \/ CSDeferDrainComp
    \/ CallerRecvC \/ CallerClose

SpecClosable == InitClosable(MaxNClose) /\ [][NextClosable]_vars

\* The scheduler runs every goroutine that can run; nothing obliges the
\* caller to receive or to close.
SpecClosableFair ==
    /\ SpecClosable
    /\ \A s \in {CandId} \cup PrimeSet : WF_vars(SpinSend(s))
    /\ WF_vars(RingStep) /\ WF_vars(MergerStepC) /\ WF_vars(SieverStepC)

\* the same system with a caller that may close the channel a second time
NextClosableTwice == NextClosable \/ CallerCloseAgain

SpecClosableTwice == InitClosable(MaxNClose) /\ [][NextClosableTwice]_vars

\* every goroutine Sieve() started, and every spin goroutine, has ended
AllEnded ==
    /\ spc = "done" /\ mpc = "done" /\ ppc = "done"
    /\ \A s \in DOMAIN sch : s \in sdone

\* C7: once the caller has closed the channel Sieve() returned, the sieving
\* goroutine, sendproxy, the merging goroutine, the candidate generator and
\* the generator of every multiples channel created eventually end.
C7_CascadeClose == ("out" \in closed) ~> AllEnded

\* every goroutine has ended after the caller's close, among them the
\* generators of two multiples channels, one of them closed through the heap
C7_Witness ==
    /\ mode = "closable" /\ "out" \in closed
    /\ AllEnded
    /\ Cardinality(DOMAIN sch) >= 3

\* C8: a second close of the channel Sieve() returned does not panic.
C8_SecondCloseNoPanic == cpc # "panicked"

---------------------------------------------------------------------------
(***************************************************************************)
(* Primes(n) of the bounded variant (src/sieve2.go): no sendproxy, the     *)
(* sieving goroutine sends what it finds straight to `primes`, a channel   *)
(* of capacity n.  The caller is main: with -n it receives n values, and   *)
(* without it receives up to the first value above its N.                  *)
(***************************************************************************)
\* the largest n of Primes(n) on the -n path
MaxCap == 8
\* the largest N of the path that prints the primes <= N
MaxNB == 20

Bounded == mode \in {"nth", "bounded"}

\* two less than p(n)
pOfShort(N) ==
    Cardinality({q \in 1..N : IsPrime(q)})
      - Cardinality({q \in 1..N : IsPrime(q) /\ q * q <= N}) - 2

\* p(n) = (number of primes <= n) - (number of primes <= sqrt(n))
pOf(N) ==
    Cardinality({q \in 1..N : IsPrime(q)})
      - Cardinality({q \in 1..N : IsPrime(q) /\ q * q <= N})

\* int(x/math.Log(x) + math.Pow(x, 0.72505)) for x = 2, 3, ..., 40
estimatePTable ==
    <<4, 4, 5, 6, 7, 7, 8, 9, 9, 10, 10, 11, 12, 12, 13, 13, 14, 14, 15, 15,
      16, 17, 17, 18, 18, 19, 19, 20, 20, 21, 21, 22, 22, 23, 23, 23, 24, 24, 25>>
estimateP(N) == estimatePTable[N - 1]

\* mergeMultiples: ch := multiples(<-primes).  The locals ch, n and mch of
\* this variant are held in m, head and minchan.
MMRecvPrime ==
    /\ Bounded /\ mpc = "recvPrime"
    /\ primes # <<>>
    /\ LET q == Head(primes) IN
         /\ m' = q
         /\ spin' = [s \in DOMAIN spin \cup {q} |-> IF s = q THEN multiples(q) ELSE spin[s]]
         /\ sch' = [s \in DOMAIN sch \cup {q} |-> IF s = q THEN <<>> ELSE sch[s]]
    /\ primes' = Tail(primes)
    /\ mpc' = "recvHead"
    /\ UNCHANGED <<min, head, h, minchan, csent, composites, mergerFrame>>

\* n := <-ch
MMRecvHead ==
    /\ Bounded /\ mpc = "recvHead"
    /\ sch[m] # <<>>
    /\ head' = Head(sch[m])
    /\ sch' = [sch EXCEPT ![m] = Tail(@)]
    /\ MergeFirstTest(h, min, Head(sch[m]))
    /\ UNCHANGED <<m, csent, spin, primes, composites, mergerFrame>>

\* out <- min; mch := heap.Pop(h).(*PeekCh); min = mch.head
MMSendMin ==
    /\ Bounded /\ mpc = "sendMin"
    /\ Len(composites) < CompCap
    /\ composites' = Append(composites, min)
    /\ csent' = Append(csent, min)
    /\ HeapPopTo(h, "recvMin1")
    /\ UNCHANGED <<head, m, spin, sch, primes, mergerFrame>>

\* heap.Push(h, &PeekCh{<-mch.ch, mch.ch}), in either loop
MMRecvMin ==
    /\ Bounded /\ mpc \in {"recvMin1", "recvMin2"}
    /\ sch[minchan] # <<>>
    /\ sch' = [sch EXCEPT ![minchan] = Tail(@)]
    /\ IF mpc = "recvMin1"
         THEN MergeFirstTest(heapPush(h, minchan, Head(sch[minchan])), min, head)
         ELSE MergeSecondTest(heapPush(h, minchan, Head(sch[minchan])), min, head)
    /\ UNCHANGED <<head, m, csent, spin, primes, composites, mergerFrame>>

\* out <- n
MMSendHead ==
    /\ Bounded /\ mpc = "sendHead"
    /\ Len(composites) < CompCap
    /\ composites' = Append(composites, head)
    /\ csent' = Append(csent, head)
    /\ mpc' = "pushNew"
    /\ UNCHANGED <<min, head, m, h, minchan, spin, sch, primes, mergerFrame>>

\* heap.Push(h, &PeekCh{<-ch, ch})
MMPushNew ==
    /\ Bounded /\ mpc = "pushNew"
    /\ sch[m] # <<>>
    /\ h' = heapPush(h, m, Head(sch[m]))
    /\ sch' = [sch EXCEPT ![m] = Tail(@)]
    /\ mpc' = "recvPrime"
    /\ UNCHANGED <<min, head, m, minchan, csent, spin, primes, composites, mergerFrame>>

MergerStepB ==
    MMRecvPrime \/ MMRecvHead \/ MMSendMin \/ MMRecvMin \/ MMSendHead \/ MMPushNew

\* primes := make(chan int, n): a send on `primes` goes through when fewer
\* than n values wait in it
primesRoomUnbuffered == Len(primes) < 0
primesRoom == Len(primes) < fcap

\* what no action of the sieving goroutine of Primes(n) touches
primesFrame ==
    <<mode, sclosed, sdone, pin, closed, proxyVars, cpc, limit, fcap, wnext, received>>

\* out <- 2; out <- 3; out <- 5; out <- 7; out <- 11
bootValues == <<2, 3, 5, 7, 11>>
bootPc == <<"out2", "out3", "out5", "out7", "out11">>
PBoot ==
    /\ Bounded
    /\ \E k \in 1..5 :
         /\ spc = bootPc[k]
         /\ Len(out) < OutCap
         /\ out' = Append(out, bootValues[k])
         /\ spc' = IF k < 5 THEN bootPc[k + 1] ELSE "sendFirst"
    /\ UNCHANGED <<p, c, primes, composites, spin, sch, mergeVars, primesFrame>>

\* primes <- 11; composites := mergeMultiples(primes);
\* candidates := coprime2357(): the two calls start a goroutine each and
\* return at once
PSendFirst ==
    /\ Bounded /\ spc = "sendFirst"
    /\ primesRoom
    /\ primes' = Append(primes, 11)
    /\ mpc' = "recvPrime" /\ min' = minSeed
    /\ spin' = (CandId :> coprime2357) /\ sch' = (CandId :> <<>>)
    /\ spc' = "recvFirst"
    /\ UNCHANGED <<p, c, out, composites, head, m, h, minchan, csent, primesFrame>>

\* p := <-candidates
PRecvFirst ==
    /\ Bounded /\ spc = "recvFirst"
    /\ sch[CandId] # <<>>
    /\ p' = Head(sch[CandId])
    /\ sch' = [sch EXCEPT ![CandId] = Tail(@)]
    /\ spc' = "recvComp"
    /\ UNCHANGED <<c, out, primes, composites, spin, mergeVars, primesFrame>>

\* c := <-composites
PRecvComp ==
    /\ Bounded /\ spc = "recvComp"
    /\ composites # <<>>
    /\ c' = Head(composites)
    /\ composites' = Tail(composites)
    /\ SieveTest(p, Head(composites))
    /\ UNCHANGED <<p, out, primes, spin, sch, mergeVars, primesFrame>>

\* primes <- p: a send on the channel of capacity n
PSendPrime ==
    /\ Bounded /\ spc = "sendPrime"
    /\ primesRoom
    /\ primes' = Append(primes, p)
    /\ spc' = "sendOut"
    /\ UNCHANGED <<p, c, out, composites, spin, sch, mergeVars, primesFrame>>

\* out <- p
PSendOut ==
    /\ Bounded /\ spc = "sendOut"
    /\ Len(out) < OutCap
    /\ out' = Append(out, p)
    /\ spc' = "recvCand"
    /\ UNCHANGED <<p, c, primes, composites, spin, sch, mergeVars, primesFrame>>

\* p = <-candidates, in the loop and in `if p == c`
PRecvCand ==
    /\ Bounded /\ spc \in {"recvCand", "recvCand2"}
    /\ sch[CandId] # <<>>
    /\ p' = Head(sch[CandId])
    /\ sch' = [sch EXCEPT ![CandId] = Tail(@)]
    /\ IF spc = "recvCand"
         THEN SieveTest(Head(sch[CandId]), c)
         ELSE spc' = "recvComp"
    /\ UNCHANGED <<c, out, primes, composites, spin, mergeVars, primesFrame>>

SieverStepB ==
    PBoot \/ PSendFirst \/ PRecvFirst \/ PRecvComp \/ PSendPrime \/ PSendOut \/ PRecvCand

\* main with -n: for i := 1; i < n; i++ { <-primes }; fmt.Println(<-primes).
\* limit is the number of values the caller receives.
NthRecv ==
    /\ mode = "nth" /\ cpc = "recv"
    /\ out # <<>>
    /\ received' = Append(received, Head(out))
    /\ out' = Tail(out)
    /\ cpc' = IF Len(received) + 1 < limit THEN "recv" ELSE "done"
    /\ UNCHANGED <<mode, genVars, chanVars, proxyVars, composites, mergeVars,
                   sieveVars, limit, fcap, wnext>>

\* main without -n: p := <-primes; print p if p <= n, else return
UptoRecv ==
    /\ mode = "bounded" /\ cpc = "recv"
    /\ out # <<>>
    /\ received' = Append(received, Head(out))
    /\ out' = Tail(out)
    /\ cpc' = IF Head(out) <= limit THEN "recv" ELSE "done"
    /\ UNCHANGED <<mode, genVars, chanVars, proxyVars, composites, mergeVars,
                   sieveVars, limit, fcap, wnext>>

\* The state when Primes(n) returns.  On the -n path the caller receives n
\* values, or one more; on the other path `primes` has room for p(N) values,
\* or for the estimateP(N) of Sieve(N).
InitBounded ==
    /\ \/ mode = "nth" /\ fcap \in 1..MaxCap /\ limit \in {fcap, fcap + 1}
       \/ mode = "bounded" /\ limit \in 2..MaxNB
                           /\ fcap \in {pOf(limit), estimateP(limit)}
    /\ NoFeedback
    /\ NoGenerators
    /\ out = <<>> /\ composites = <<>>
    /\ mpc = "idle" /\ min = 0 /\ head = 0 /\ m = 0 /\ h = <<>> /\ minchan = 0
    /\ csent = <<>>
    /\ spc = "out2" /\ p = 0 /\ c = 0
    /\ cpc = "recv"
    /\ wnext = 1
    /\ received = <<>>

NextBounded ==
    \/ \E s \in DOMAIN sch : SpinSend(s)
    \/ MMRecvPrime \/ MMRecvHead \/ MMSendMin \/ MMRecvMin \/ MMSendHead \/ MMPushNew
    \/ PBoot \/ PSendFirst \/ PRecvFirst \/ PRecvComp \/ PSendPrime \/ PSendOut
    \/ PRecvCand
    \/ NthRecv \/ UptoRecv

SpecBounded == InitBounded /\ [][NextBounded]_vars

\* The scheduler runs every goroutine that can run.
SpecBoundedFair ==
    /\ SpecBounded
    /\ WF_vars(SpinStep) /\ WF_vars(MergerStepB) /\ WF_vars(SieverStepB)
    /\ WF_vars(NthRecv) /\ WF_vars(UptoRecv)

\* C11: with `primes` of capacity n, the first n primes are received from
\* Primes(n): under fair scheduling a caller that keeps receiving is handed
\* its n-th value, whatever n >= 1 is; no deadlock comes before it.
C11_FirstNDelivered == (mode = "nth") ~> (mode = "nth" /\ Len(received) >= fcap)

\* the caller of Primes(n) holds its n-th value, one the sieving goroutine
\* found itself and sent to `primes` before it sent it to `out`
C11_Witness ==
    /\ mode = "nth" /\ limit = fcap /\ cpc = "done"
    /\ Len(received) = fcap
    /\ received[fcap] > 11

\* the sieving goroutine stands at `primes <- p` and `primes` is full
FeedbackFull == spc \in {"sendFirst", "sendPrime"} /\ ~primesRoom

\* the caller has been handed every prime up to its N, and one above it
DeliveredUpto ==
    /\ cpc = "done"
    /\ \A q \in 2..limit : IsPrime(q) => q \in Range(received)

FeedbackDeadlock ==
    /\ mode = "nth"
    /\ FeedbackFull
    /\ \/ mpc = "idle"
       \/ mpc \in {"sendMin", "sendHead"} /\ Len(composites) = CompCap

---------------------------------------------------------------------------
(***************************************************************************)
(* The merging goroutine of Sieve() (src/unnamed/part_001): what it sends  *)
(* on `composites` and what its heap holds.                                *)
(***************************************************************************)
\* C14: the values sent on `composites` never decrease.  A `min` about to be
\* sent is below the head of the new stream and not above any head in the
\* heap; a head p*p about to be sent is not above the pending `min`, and the
\* second value of the new stream, pushed after it, is not below it.
C14_NonDecreasing ==
    mode = "sieve" =>
      /\ \A j \in 1..Len(csent) : \A k \in 1..Len(csent) : j < k => csent[j] <= csent[k]
      /\ mpc = "sendMin" => min < head /\ \A s \in DOMAIN h : min <= h[s]
      /\ mpc = "sendHead" => head <= min
      /\ (mpc = "recvPrime" /\ m # 0) => head <= h[m]

\* the merging goroutine has sent the heads 121, 169 and 289 and values `min`
\* between them, one of them twice, and is about to send one more `min`
C14_Witness ==
    /\ mode = "sieve"
    /\ {121, 169, 289} \subseteq Range(csent)
    /\ \E j \in 1..Len(csent) - 1 : csent[j] = csent[j + 1]
    /\ mpc = "sendMin"
    /\ Cardinality(DOMAIN h) >= 3

\* the composites the merging goroutine is to send: those coprime to 210,
\* from 121 on
IsComposite210(x) == x >= 121 /\ Coprime210(x) /\ ~IsPrime(x)

\* the primes q with 11 <= q and q * q <= x have all been registered: the
\* merging goroutine has started multiples(q)
Registered(x) == \A q \in 11..x : (IsPrime(q) /\ q * q <= x) => q \in DOMAIN sch

\* C15: every value sent on `composites` is a composite coprime to 210, 121
\* or above; and every such composite is sent before any value above it,
\* when the primes up to its square root have been registered.
C15_CompositesExact ==
    mode = "sieve" =>
      \A k \in 1..Len(csent) :
        /\ IsComposite210(csent[k])
        /\ \A x \in 121..(csent[k] - 1) :
             (IsComposite210(x) /\ Registered(x)) => \E j \in 1..(k - 1) : csent[j] = x

\* the merging goroutine has sent composites of 11, 13 and 17, among them
\* products of two primes it had registered and of some it had not
C15_Witness ==
    /\ mode = "sieve"
    /\ {11, 13, 17} \subseteq DOMAIN sch
    /\ {221, 299, 323, 341} \subseteq Range(csent)

\* the values written to the feedback path, in order: 11, sent by Sieve()
\* itself, then what the sieving goroutine sent to the channel sendproxy
\* returned, received by sendproxy or still waiting in that channel
FeedbackWrites == <<11>> \o taken \o pin

\* the values written to `out`, in order
OutWrites == received \o out

\* the writes to the feedback path are the writes to `out` without 2, 3, 5
\* and 7, each value written to the feedback path first
FeedbackBeforeOut ==
    LET found == SubSeq(OutWrites, 5, Len(OutWrites)) IN
      \/ FeedbackWrites = found
      \/ spc = "sendOut" /\ FeedbackWrites = found \o <<p>>

\* C16: the values written to the feedback path are the values written to
\* `out` without 2, 3, 5 and 7: 11, then every prime found, once each and in
\* increasing order, never a composite; each is written to the feedback path
\* before it is written to `out`.
C16_FeedbackIsPrimes ==
    mode = "sieve" =>
      /\ FeedbackBeforeOut
      /\ \A k \in 1..Len(FeedbackWrites) :
           /\ FeedbackWrites[k] \in PrimeSet
           /\ Cardinality({q \in PrimeSet : 11 <= q /\ q <= FeedbackWrites[k]}) = k

\* the primes the merging goroutine has received from `primes`: one stream
\* of multiples was started for each
PrimesRegistered == DOMAIN sch \ {CandId}

\* what the heap holds at each point of the merging goroutine's loop: a
\* stream for every prime received, but the newest before its push and the
\* stream just popped before its reinsert
HeapHolds ==
    /\ mpc # "panic"
    /\ mpc = "recvPrime" => DOMAIN h = PrimesRegistered
    /\ mpc \in {"recvHead", "sendMin", "sendHead", "pushNew"} =>
         /\ m \in PrimesRegistered
         /\ DOMAIN h = PrimesRegistered \ {m}
    /\ mpc \in {"recvMin1", "recvMin2"} =>
         /\ {m, minchan} \subseteq PrimesRegistered /\ m # minchan
         /\ DOMAIN h = PrimesRegistered \ {m, minchan}

\* C17: the heap starts empty and holds, at the end of every iteration of
\* the merging goroutine's outer loop, one entry for each prime received from
\* the feedback channel; a stream popped is pushed again with its next
\* value; the heap does not shrink from one iteration to the next and no
\* stream is dropped.
C17_HeapSize ==
    /\ [](mode = "sieve" => HeapHolds)
    /\ [][(mode = "sieve" /\ mpc \in {"recvMin1", "recvMin2"}
             /\ mpc' \in {"sendMin", "sendHead"})
            => (minchan \in DOMAIN h' /\ h'[minchan] = Head(sch[minchan]))]_vars
    /\ [][(mode = "sieve" /\ mpc = "recvPrime" /\ mpc' = "recvPrime")
            => DOMAIN h \subseteq DOMAIN h']_vars

\* the merging goroutine ends an iteration of its outer loop holding the
\* streams of 11, 13 and 17, after pops and reinserts
C17_Witness ==
    /\ mode = "sieve"
    /\ mpc = "recvPrime"
    /\ DOMAIN h = {11, 13, 17}
    /\ Len(csent) >= 10

\* C18: for every prime q >= 11 the sieve has emitted, one stream
\* multiples(q) is started, no second one, and the merging goroutine holds it
\* (in its heap, or in hand on the way into the heap) by the time the
\* candidate of the sieving goroutine has reached q * q.
C18_StreamPerPrime ==
    mode = "sieve" =>
      /\ \A k \in 5..Len(OutWrites) :
           (IsPrime(OutWrites[k]) /\ p >= OutWrites[k] * OutWrites[k])
             => OutWrites[k] \in PrimesRegistered
      /\ \A j \in 1..Len(fwd) : \A k \in 1..Len(fwd) :
           j # k => (fwd[j] # fwd[k] /\ fwd[j] # 11)

---------------------------------------------------------------------------
(***************************************************************************)
(* The panics of the cascade close (src/sieve3.go).                        *)
(***************************************************************************)
\* C19: after the caller's close, every panic of a send on a closed channel
\* or of a close of a closed channel, in the sieving goroutine, the merging
\* goroutine, sendproxy, the spin goroutines and PeekCh.Close, is recovered
\* in the goroutine where it is raised: no goroutine ends in a panic that
\* is not recovered.
C19_PanicsRecovered ==
    mode = "closable" => (spc # "crashed" /\ mpc # "crashed" /\ ppc # "crashed")

\* the shutdown is over: the sieving goroutine has ended, which it does only
\* by recovering the panic of `out <- p`; every spin goroutine has ended,
\* which it does only by recovering the panic of its send; and the stream the
\* merging goroutine closed itself has been closed again through the heap
C19_Witness ==
    /\ mode = "closable" /\ "out" \in closed
    /\ spc = "done" /\ mpc = "done" /\ ppc = "done"
    /\ h = <<>> /\ m \in sclosed
    /\ CandId \in sdone /\ PrimesRegistered \subseteq sdone
    /\ Cardinality(PrimesRegistered) >= 2

---------------------------------------------------------------------------
(***************************************************************************)
(* The generators at the end of the range of int (src/unnamed/part_001).   *)
(***************************************************************************)
\* how far from the square root of the largest int the primes q of the
\* generators multiples(q) are taken
WideSpan == 30

\* the integer square root of the largest int
MaxIntRoot == CHOOSE r \in 1..(2 ^ IntBits) : r * r <= 2 ^ (IntBits - 1) - 1 /\ (r + 1) * (r + 1) > 2 ^ (IntBits - 1) - 1

\* primes whose square is near the largest int, below it and above it
WideGenerators == {q \in (MaxIntRoot - WideSpan)..(MaxIntRoot + WideSpan) : IsPrime(q)}

\* one generator multiples(q) and a reader of its channel, q * q being near
\* the largest int
InitSpinWide ==
    /\ mode = "spin"
    /\ \E s \in WideGenerators :
         /\ spin = (s :> NewStream(s))
         /\ sch = (s :> <<>>)
    /\ sclosed = {}
    /\ sdone = {}
    /\ received = <<>>
    /\ NoFeedback
    /\ NoSieve
    /\ wnext = 1

SpecSpinWide == InitSpinWide /\ [][NextSpin]_vars

\* C20: no stream carries a value that wrapped around: when q * q, or a step
\* n += k * wheel[i], leaves the range of int, the generator stops with an
\* error instead of sending; so what multiples(q) sends starts at q * q and
\* increases.
C20_NoWrappedValue ==
    (mode = "spin" /\ TheGen # CandId) =>
      \A k \in 1..Len(Sent) :
        /\ Sent[k] >= TheGen * TheGen
        /\ k > 1 => Sent[k] > Sent[k - 1]

---------------------------------------------------------------------------
(***************************************************************************)
(* The loop tests of the merging goroutine and of the sieve loop           *)
(* (src/unnamed/part_001, src/sieve2.go).                                  *)
(***************************************************************************)
\* C21: the merging goroutine never pops from an empty heap: where the test
\* `min < head` has held, or `min == head`, the heap holds a stream; and for
\* the first prime, 11, with head 121 and min 143, neither loop body runs:
\* 121 is the first value sent.
C21_NoPopOfEmptyHeap ==
    mode \in {"sieve", "nth", "bounded"} =>
      /\ mpc # "panic"
      /\ mpc = "sendMin" => DOMAIN h # {}
      /\ m = 11 => mpc \notin {"sendMin", "recvMin1", "recvMin2"}
      /\ csent # <<>> => csent[1] = 121

\* the merging goroutine has sent 121 first, and stands after a pop that the
\* test `min < head` led to, two streams having been left in its heap
C21_Witness ==
    /\ mode = "sieve"
    /\ mpc = "recvMin1" /\ min < head
    /\ Cardinality(DOMAIN h) >= 2
    /\ Len(csent) >= 2 /\ csent[1] = 121

\* heap.Pop has run in this step: the heap has lost a stream
HeapPopped == Cardinality(DOMAIN h') < Cardinality(DOMAIN h)

\* C22: in the merging goroutine `min == head` is false whenever it is
\* tested, so the body of `for min == head` never runs; and no value popped
\* as `min` is lost: a pop only follows the send of the `min` before it, so
\* each popped value stays in `min` until it is sent on `composites`.
C22_NoDuplicateCollapse ==
    /\ [](mode = "sieve" => (mpc # "recvMin2" /\ (mpc = "sendHead" => min # head)))
    /\ [][(mode = "sieve" /\ HeapPopped)
            => (mpc = "sendMin" /\ csent' = Append(csent, min))]_vars

\* the test `min == head` has just failed for the third prime registered,
\* after pops whose values were all sent
C22_Witness ==
    /\ mode = "sieve"
    /\ mpc = "sendHead" /\ m = 17 /\ min > head
    /\ Cardinality(DOMAIN h) = 2
    /\ Len(csent) >= 8

\* the composites the sieving goroutine has read so far, in order
ReadComps == SubSeq(csent, 1, Len(csent) - Len(composites))

\* this step is the sieving goroutine's c := <-composites
ReadsComposite == spc = "recvComp" /\ Len(composites') < Len(composites)

\* C23: in the sieve loop, when the composite c just read is above every
\* composite read before, the candidate p is not above it; p > c only when c
\* is a value read before, and then the iteration sends nothing to `out`,
\* nothing to `primes`, and leaves p as it is.
C23_FrontierNotAhead ==
    [][(mode \in {"sieve", "nth", "bounded"} /\ ReadsComposite) =>
         /\ (\A k \in 1..Len(ReadComps) : ReadComps[k] < c') => p <= c'
         /\ p > c' =>
              /\ \E k \in 1..Len(ReadComps) : ReadComps[k] = c'
              /\ spc' = "recvComp"
              /\ p' = p /\ out' = out /\ pin' = pin /\ primes' = primes]_vars

\* the sieving goroutine has read 143 twice, the second time with its
\* candidate at 149, and then 169, which its candidate is below
C23_Witness ==
    /\ mode = "sieve"
    /\ ReadComps = <<121, 143, 143, 169>>
    /\ c = 169 /\ p = 149 /\ spc = "sendPrime"

=============================================================================
